---- MODULE Spec2Model ----
(***************************************************************************)
(* Model of pixelutil-image: conversion of numeric values to image axis   *)
(* indices (src/index.rs), the lifting of two values to a coordinate      *)
(* (src/coordinate.rs), and the bounds-checked / clamped pixel access of  *)
(* ExtendedImageView (src/view.rs) and of the raw i32 functions           *)
(* (src/lib.rs).                                                          *)
(*                                                                         *)
(* Integer widths are scaled: u32 has AxisBits bits, and every other      *)
(* integer type keeps its position relative to u32 (narrower or wider,    *)
(* signed or unsigned), see Bits.  All casts wrap at the scaled width.    *)
(* A finite float is a sign and a magnitude counted in 1/FracDen units.   *)
(* The target is the 64-bit one (target_pointer_width = "64").            *)
(***************************************************************************)
EXTENDS Integers, Naturals, Sequences, FiniteSets, TLC

\* ---------------------------------------------------------------- bounds
\* scaled bit width of u32, the axis index type
AxisBits == 4
\* a finite float magnitude m stands for the real number m / FracDen
FracDen == 2

Pow2(n) == 2 ^ n

U32Max == Pow2(AxisBits) - 1
I32Max == Pow2(AxisBits - 1) - 1
I32Min == 0 - Pow2(AxisBits - 1)

\* ----------------------------------------------------------- option type
None == <<>>
Some(v) == <<v>>
IsSome(o) == Len(o) = 1
Unwrap(o) == o[1]

Min(a, b) == IF a <= b THEN a ELSE b
Max(a, b) == IF a >= b THEN a ELSE b

\* ---------------------------------------------------------- numeric types
UnsignedInbound == {"u8", "u16"}
UnsignedWide == {"usize", "u128"}
SignedInbound == {"i8", "i16", "i32"}
SignedWide == {"isize", "i64", "i128"}
FloatTypes == {"f32", "f64"}
IntTypes == {"u32"} \cup UnsignedInbound \cup UnsignedWide \cup SignedInbound \cup SignedWide
Types == IntTypes \cup FloatTypes

IsSigned(t) == t \in SignedInbound \cup SignedWide

\* scaled width of each integer type, ordered as the real widths are
Bits(t) ==
  CASE t \in {"u8", "i8"} -> AxisBits - 2
    [] t \in {"u16", "i16"} -> AxisBits - 1
    [] t \in {"u32", "i32"} -> AxisBits
    [] t \in {"usize", "isize", "i64"} -> AxisBits + 2
    [] t \in {"u128", "i128"} -> AxisBits + 3

MinOf(t) == IF IsSigned(t) THEN 0 - Pow2(Bits(t) - 1) ELSE 0
MaxOf(t) == IF IsSigned(t) THEN Pow2(Bits(t) - 1) - 1 ELSE Pow2(Bits(t)) - 1

\* `v as t` for an integer type t: two's complement wrap to the width of t
CastInt(v, t) ==
  LET m == v % Pow2(Bits(t))
  IN IF IsSigned(t) /\ m > MaxOf(t) THEN m - Pow2(Bits(t)) ELSE m

AsU32(v) == CastInt(v, "u32")
AsI32(v) == CastInt(v, "i32")

\* ------------------------------------------------------------ axis values
\* an axis value is an integer of some integer type, or a float
IntVal(v) == [int |-> v]

NaN == [cls |-> "nan", neg |-> FALSE, mag |-> 0]
PosInf == [cls |-> "inf", neg |-> FALSE, mag |-> 0]
NegInf == [cls |-> "inf", neg |-> TRUE, mag |-> 0]
Fin(n, m) == [cls |-> "fin", neg |-> n, mag |-> m]

is_finite(f) == f.cls = "fin"
is_nan(f) == f.cls = "nan"
is_sign_positive(f) == ~f.neg
\* truncation toward zero of the magnitude of a finite float
Trunc(f) == f.mag \div FracDen
\* f < 0 as a number (false of -0.0 and of NaN)
FloatNegative(f) == f.neg /\ (f.cls = "inf" \/ (f.cls = "fin" /\ f.mag > 0))

\* safety precondition of f.to_int_unchecked::<u32>(): f is finite and its
\* truncation is representable in u32 (-1 < f < 2^AxisBits)
ToIntPre(f) ==
  /\ is_finite(f)
  /\ IF f.neg THEN Trunc(f) = 0 ELSE Trunc(f) <= U32Max

\* f.to_int_unchecked::<u32>(): the truncation when the precondition holds,
\* otherwise undefined behaviour: ub is whatever u32 the build produces
to_int_unchecked(f, ub) == IF ToIntPre(f) THEN Trunc(f) ELSE ub

\* ----------------------------------------------------------- input sets
Extents == {0, 1, 2, I32Max + 1, U32Max}
\* the values an unchecked conversion may yield when its precondition fails
UBOutcomes == {0, 1, I32Max + 1, U32Max}
IntBoundary == {0 - 1, 0, 1, 2, I32Max, I32Max + 1, U32Max, U32Max + 1}
FloatMags(t) ==
  {0, 1, 2 * FracDen + 1, (U32Max + 1) * FracDen}
    \cup (IF t = "f64" THEN {FracDen, U32Max * FracDen + 1} ELSE {})
Values(t) ==
  IF t \in FloatTypes
    THEN {NaN, PosInf, NegInf} \cup {Fin(n, m) : n \in BOOLEAN, m \in FloatMags(t)}
    ELSE {IntVal(v) : v \in {u \in IntBoundary \cup {MinOf(t), MaxOf(t)} :
                              MinOf(t) <= u /\ u <= MaxOf(t)}}
Reprs == {"tuple", "array", "array_ref"}
\* the outcomes to enumerate for the conversion of v: one when it is defined
UBChoices(t, v) ==
  IF t \in FloatTypes /\ is_finite(v) /\ ~ToIntPre(v) THEN UBOutcomes ELSE {0}

\* ---------------------------------------------------- src/index.rs: to_
\* impl_pixel_index!(as_): Some(self as u32)
to_image_axis_index_as(v) == Some(AsU32(v))
\* a conversion by cast where the checked one is needed: Some(self as u32)
to_image_axis_index_try_from_wrapping(v) == Some(AsU32(v))
\* a conversion that also rejects 0
to_image_axis_index_try_from_positive(v) == IF 0 < v /\ v <= U32Max THEN Some(v) ELSE None
\* impl_pixel_index!(try_from): u32::try_from(self).ok()
to_image_axis_index_try_from(v) == IF 0 <= v /\ v <= U32Max THEN Some(v) ELSE None
\* impl_pixel_index!(float)
to_image_axis_index_float(f, ub) ==
  IF is_finite(f) /\ is_sign_positive(f) THEN Some(to_int_unchecked(f, ub)) ELSE None

to_image_axis_index(t, v, ub) ==
  CASE t = "u32" -> Some(v.int)
    [] t \in UnsignedInbound -> to_image_axis_index_as(v.int)
    [] t \in UnsignedWide \cup SignedInbound \cup SignedWide -> to_image_axis_index_try_from(v.int)
    [] t \in FloatTypes -> to_image_axis_index_float(v, ub)

\* -------------------------------------------------- src/index.rs: clamp_
clamp_u32(v, max) == Min(v, max)
clamp_unsigned_inbound(v, max) == Min(AsU32(v), max)
\* u32::try_from(self).ok().unwrap_or(max)
clamp_unsigned(v, max) == IF 0 <= v /\ v <= U32Max THEN v ELSE max
\* the clamp without the lower bound: (self as u32).min(max)
clamp_signed_inbound_no_floor(v, max) == Min(AsU32(v), max)
\* (self.max(0) as u32).min(max)
clamp_signed_inbound(v, max) == Min(AsU32(Max(v, 0)), max)
\* the clamp with max cast to i32 instead of the wide type
clamp_signed_narrow_max(t, v, max) == AsU32(Min(Max(v, 0), AsI32(max)))
\* (self.max(0).min(max as $t)) as u32
clamp_signed(t, v, max) == AsU32(Min(Max(v, 0), CastInt(max, t)))
\* then_some evaluates its argument eagerly: the unchecked conversion runs
\* for every finite value, whatever its sign
clamp_float(f, max, ub) ==
  IF is_finite(f)
    THEN LET arg == Min(to_int_unchecked(f, ub), max)
         IN IF is_sign_positive(f) THEN arg ELSE 0
    ELSE IF ~is_nan(f)
      THEN (IF is_sign_positive(f) THEN max ELSE 0)
      ELSE 0

clamp_image_axis_index(t, v, max, ub) ==
  CASE t = "u32" -> clamp_u32(v.int, max)
    [] t \in UnsignedInbound -> clamp_unsigned_inbound(v.int, max)
    [] t \in UnsignedWide -> clamp_unsigned(v.int, max)
    [] t \in SignedInbound -> clamp_signed_inbound(v.int, max)
    [] t \in SignedWide -> clamp_signed(t, v.int, max)
    [] t \in FloatTypes -> clamp_float(v, max, ub)

\* the values an operation passes to to_int_unchecked: `.then(|| ..)` runs
\* its closure only when the test holds, `.then_some(..)` evaluates its
\* argument before the test is looked at
to_image_axis_index_unchecked(t, v) ==
  IF t \in FloatTypes /\ is_finite(v) /\ is_sign_positive(v) THEN <<v>> ELSE <<>>
clamp_image_axis_index_unchecked(t, v) ==
  IF t \in FloatTypes /\ is_finite(v) THEN <<v>> ELSE <<>>

\* ------------------------------------------------- src/coordinate.rs
\* Option::zip
Zip(ox, oy) == IF IsSome(ox) /\ IsSome(oy) THEN Some(<<Unwrap(ox), Unwrap(oy)>>) ELSE None

\* the tuple lift with its components exchanged
image_coordinate_tuple_swapped(t, c, ubx, uby) ==
  Zip(to_image_axis_index(t, c[2], uby), to_image_axis_index(t, c[1], ubx))
\* impl ImageCoordinate for (T, T): self.0 is c[1], self.1 is c[2]
image_coordinate_tuple(t, c, ubx, uby) ==
  Zip(to_image_axis_index(t, c[1], ubx), to_image_axis_index(t, c[2], uby))
image_coordinate_clamped_tuple(t, c, right, bottom, ubx, uby) ==
  <<clamp_image_axis_index(t, c[1], right, ubx), clamp_image_axis_index(t, c[2], bottom, uby)>>

\* impl ImageCoordinate for [T; 2]: get_unchecked(0), get_unchecked(1)
get_unchecked(c, i) == c[i + 1]
image_coordinate_array(t, c, ubx, uby) ==
  Zip(to_image_axis_index(t, get_unchecked(c, 0), ubx),
      to_image_axis_index(t, get_unchecked(c, 1), uby))
\* the array clamp reading element 0 for both axes
image_coordinate_clamped_array_first(t, c, right, bottom, ubx, uby) ==
  <<clamp_image_axis_index(t, get_unchecked(c, 0), right, ubx),
    clamp_image_axis_index(t, get_unchecked(c, 0), bottom, ubx)>>
image_coordinate_clamped_array(t, c, right, bottom, ubx, uby) ==
  <<clamp_image_axis_index(t, get_unchecked(c, 0), right, ubx),
    clamp_image_axis_index(t, get_unchecked(c, 1), bottom, uby)>>

\* impl ImageCoordinate for &[T; 2]: the same through clone()
image_coordinate_array_ref(t, c, ubx, uby) ==
  Zip(to_image_axis_index(t, get_unchecked(c, 0), ubx),
      to_image_axis_index(t, get_unchecked(c, 1), uby))
image_coordinate_clamped_array_ref(t, c, right, bottom, ubx, uby) ==
  <<clamp_image_axis_index(t, get_unchecked(c, 0), right, ubx),
    clamp_image_axis_index(t, get_unchecked(c, 1), bottom, uby)>>

image_coordinate(r, t, c, ubx, uby) ==
  CASE r = "tuple" -> image_coordinate_tuple(t, c, ubx, uby)
    [] r = "array" -> image_coordinate_array(t, c, ubx, uby)
    [] r = "array_ref" -> image_coordinate_array_ref(t, c, ubx, uby)

image_coordinate_clamped(r, t, c, right, bottom, ubx, uby) ==
  CASE r = "tuple" -> image_coordinate_clamped_tuple(t, c, right, bottom, ubx, uby)
    [] r = "array" -> image_coordinate_clamped_array(t, c, right, bottom, ubx, uby)
    [] r = "array_ref" -> image_coordinate_clamped_array_ref(t, c, right, bottom, ubx, uby)

\* ------------------------------------------------------- the raster
\* GenericImageView::in_bounds(x, y) on u32 indices
view_in_bounds(w, h, x, y) == x < w /\ y < h
\* GenericImageView::unsafe_get_pixel(x, y): the pixel is opaque to the
\* library, it is identified by the place it is read from
unsafe_get_pixel(x, y) == [col |-> x, row |-> y]

\* return values, tagged by their type
Unit == [unit |-> TRUE]
Bool(b) == [bool |-> b]
Index(v) == [index |-> v]
OptIndex(o) == [opt_index |-> o]
Pixel(p) == [pixel |-> p]
OptPixel(o) == [opt_pixel |-> o]
IndexPair(xy) == [pair |-> xy]
OptIndexPair(o) == [opt_pair |-> o]

\* what one call leaves behind: whether it panicked, the index pair it
\* derived from the coordinate, its return value, the unchecked fetches made
Outcome(p, c, r, f) == [panicked |-> p, conv |-> c, result |-> r, fetched |-> f]
Panic == Outcome(TRUE, None, Unit, <<>>)

\* a - 1 on u32: with overflow checks (debug profile) 0 - 1 panics, without
\* them (release profile) it wraps
SubOneU32(a, checks) ==
  IF a = 0
    THEN [panic |-> checks, val |-> U32Max]
    ELSE [panic |-> FALSE, val |-> a - 1]

\* ------------------------------------------------------- src/view.rs
edges(w, h, checks) ==
  LET r == SubOneU32(w, checks)
      b == SubOneU32(h, checks)
  IN [panic |-> r.panic \/ b.panic, right |-> r.val, bottom |-> b.val]

\* within_bounds with unwrap_or(true)
within_bounds_default_true(r, t, c, w, h, ubx, uby) ==
  LET ic == image_coordinate(r, t, c, ubx, uby)
  IN Outcome(FALSE, ic,
             Bool(IF IsSome(ic) THEN view_in_bounds(w, h, Unwrap(ic)[1], Unwrap(ic)[2])
                                ELSE TRUE),
             <<>>)

within_bounds(r, t, c, w, h, ubx, uby) ==
  LET ic == image_coordinate(r, t, c, ubx, uby)
  IN Outcome(FALSE, ic,
             Bool(IF IsSome(ic) THEN view_in_bounds(w, h, Unwrap(ic)[1], Unwrap(ic)[2])
                                ELSE FALSE),
             <<>>)

get_pixel_at(r, t, c, w, h, ubx, uby) ==
  LET ic == image_coordinate(r, t, c, ubx, uby)
  IN IF IsSome(ic) /\ view_in_bounds(w, h, Unwrap(ic)[1], Unwrap(ic)[2])
       THEN Outcome(FALSE, ic, OptPixel(Some(unsafe_get_pixel(Unwrap(ic)[1], Unwrap(ic)[2]))),
                    <<Unwrap(ic)>>)
       ELSE Outcome(FALSE, ic, OptPixel(None), <<>>)

get_pixel_clamped(r, t, c, w, h, checks, ubx, uby) ==
  LET e == edges(w, h, checks)
  IN IF e.panic
       THEN Panic
       ELSE LET xy == image_coordinate_clamped(r, t, c, e.right, e.bottom, ubx, uby)
            IN Outcome(FALSE, Some(xy), Pixel(unsafe_get_pixel(xy[1], xy[2])), <<xy>>)

\* -------------------------------------------------------- src/lib.rs
\* in_bounds with inclusive upper bounds
in_bounds_inclusive(w, h, x, y) == x >= 0 /\ y >= 0 /\ x <= AsI32(w) /\ y <= AsI32(h)
in_bounds(w, h, x, y) == x >= 0 /\ y >= 0 /\ x < AsI32(w) /\ y < AsI32(h)

get_pixel(w, h, x, y) ==
  IF in_bounds(w, h, x, y)
    THEN Outcome(FALSE, Some(<<AsU32(x), AsU32(y)>>),
                 OptPixel(Some(unsafe_get_pixel(AsU32(x), AsU32(y)))),
                 <<<<AsU32(x), AsU32(y)>>>>)
    ELSE Outcome(FALSE, None, OptPixel(None), <<>>)

\* v.clamp(0, extent as i32 - 1) as u32: the subtraction overflows when
\* extent as i32 is i32::MIN (panic with overflow checks, wrap without),
\* and Ord::clamp asserts min <= max in every profile
clamp_i32_axis(v, extent, checks) ==
  LET e == AsI32(extent)
      ovf == e = I32Min
      hi == IF ovf THEN I32Max ELSE e - 1
  IN IF (ovf /\ checks) \/ 0 > hi
       THEN [panic |-> TRUE, val |-> 0]
       ELSE [panic |-> FALSE, val |-> AsU32(Min(Max(v, 0), hi))]

clamp_pixel(w, h, x, y, checks) ==
  LET cx == clamp_i32_axis(x, w, checks)
      cy == clamp_i32_axis(y, h, checks)
  IN IF cx.panic \/ cy.panic
       THEN Panic
       ELSE Outcome(FALSE, Some(<<cx.val, cy.val>>),
                    Pixel(unsafe_get_pixel(cx.val, cy.val)), <<<<cx.val, cy.val>>>>)

\* (v.max(0) as u32).min(extent - 1)
clamp_unchecked_axis(v, extent, checks) ==
  LET m == SubOneU32(extent, checks)
  IN [panic |-> m.panic, val |-> Min(AsU32(Max(v, 0)), m.val)]

clamp_pixel_unchecked(w, h, x, y, checks) ==
  LET cx == clamp_unchecked_axis(x, w, checks)
      cy == clamp_unchecked_axis(y, h, checks)
  IN IF cx.panic \/ cy.panic
       THEN Panic
       ELSE Outcome(FALSE, Some(<<cx.val, cy.val>>),
                    Pixel(unsafe_get_pixel(cx.val, cy.val)), <<<<cx.val, cy.val>>>>)

\* ------------------------------------------------------------ the state
VARIABLES
  width, height,   \* the raster's extent
  op,              \* the operation that was called last, "idle" between calls
  rep, ty,         \* representation and numeric type of its coordinate
  coords,          \* its coordinate <<a, b>>, or <<v>> for a single axis value
  bound,           \* the max argument of an axis clamp, else 0
  conv,            \* the index pair derived from the coordinate
  result,          \* its return value
  fetched,         \* the index pairs it passed to unsafe_get_pixel, in order
  panicked,        \* whether it panicked
  corner,          \* the <<right, bottom>> argument of a coordinate clamp
  unchecked        \* the floats it passed to to_int_unchecked, in order

vars == <<width, height, op, rep, ty, coords, bound, conv, result, fetched, panicked,
          corner, unchecked>>

Init ==
  /\ width \in Extents
  /\ height \in Extents
  /\ op = "idle"
  /\ rep = "none"
  /\ ty = "none"
  /\ coords = <<>>
  /\ bound = 0
  /\ conv = None
  /\ result = Unit
  /\ fetched = <<>>
  /\ panicked = FALSE
  /\ corner = <<>>
  /\ unchecked = <<>>

\* the unchecked conversions made by the operation name on coordinate c
UncheckedIn(name, t, c, p) ==
  CASE name = "to_image_axis_index" -> to_image_axis_index_unchecked(t, c[1])
    [] name = "clamp_image_axis_index" -> clamp_image_axis_index_unchecked(t, c[1])
    [] name \in {"within_bounds", "get_pixel_at", "image_coordinate"} ->
         to_image_axis_index_unchecked(t, c[1]) \o to_image_axis_index_unchecked(t, c[2])
    [] name \in {"get_pixel_clamped", "image_coordinate_clamped"} ->
         IF p THEN <<>>
              ELSE clamp_image_axis_index_unchecked(t, c[1])
                     \o clamp_image_axis_index_unchecked(t, c[2])
    [] OTHER -> <<>>

Called(name, r, t, c, m, out) ==
  /\ op' = name
  /\ rep' = r
  /\ ty' = t
  /\ coords' = c
  /\ bound' = m
  /\ conv' = out.conv
  /\ result' = out.result
  /\ fetched' = out.fetched
  /\ panicked' = out.panicked
  /\ corner' = <<>>
  /\ unchecked' = UncheckedIn(name, t, c, out.panicked)
  /\ UNCHANGED <<width, height>>

ToImageAxisIndex ==
  /\ op = "idle"
  /\ \E t \in Types : \E v \in Values(t) : \E ub \in UBChoices(t, v) :
    Called("to_image_axis_index", "none", t, <<v>>, 0,
           Outcome(FALSE, None, OptIndex(to_image_axis_index(t, v, ub)), <<>>))

ClampImageAxisIndex ==
  /\ op = "idle"
  /\ \E t \in Types : \E v \in Values(t) : \E m \in Extents : \E ub \in UBChoices(t, v) :
    Called("clamp_image_axis_index", "none", t, <<v>>, m,
           Outcome(FALSE, None, Index(clamp_image_axis_index(t, v, m, ub)), <<>>))

WithinBounds ==
  /\ op = "idle"
  /\ \E r \in Reprs : \E t \in Types : \E a \in Values(t) : \E b \in Values(t) :
    \E ubx \in UBChoices(t, a) : \E uby \in UBChoices(t, b) :
      Called("within_bounds", r, t, <<a, b>>, 0,
             within_bounds(r, t, <<a, b>>, width, height, ubx, uby))

GetPixelAt ==
  /\ op = "idle"
  /\ \E r \in Reprs : \E t \in Types : \E a \in Values(t) : \E b \in Values(t) :
    \E ubx \in UBChoices(t, a) : \E uby \in UBChoices(t, b) :
      Called("get_pixel_at", r, t, <<a, b>>, 0,
             get_pixel_at(r, t, <<a, b>>, width, height, ubx, uby))

GetPixelClamped ==
  /\ op = "idle"
  /\ \E r \in Reprs : \E t \in Types : \E a \in Values(t) : \E b \in Values(t) :
    \E checks \in BOOLEAN : \E ubx \in UBChoices(t, a) : \E uby \in UBChoices(t, b) :
      Called("get_pixel_clamped", r, t, <<a, b>>, 0,
             get_pixel_clamped(r, t, <<a, b>>, width, height, checks, ubx, uby))

InBounds ==
  /\ op = "idle"
  /\ \E x \in Values("i32") : \E y \in Values("i32") :
    Called("in_bounds", "none", "i32", <<x, y>>, 0,
           Outcome(FALSE, None, Bool(in_bounds(width, height, x.int, y.int)), <<>>))

GetPixel ==
  /\ op = "idle"
  /\ \E x \in Values("i32") : \E y \in Values("i32") :
    Called("get_pixel", "none", "i32", <<x, y>>, 0, get_pixel(width, height, x.int, y.int))

ClampPixel ==
  /\ op = "idle"
  /\ \E x \in Values("i32") : \E y \in Values("i32") : \E checks \in BOOLEAN :
    Called("clamp_pixel", "none", "i32", <<x, y>>, 0,
           clamp_pixel(width, height, x.int, y.int, checks))

ClampPixelUnchecked ==
  /\ op = "idle"
  /\ \E x \in Values("i32") : \E y \in Values("i32") : \E checks \in BOOLEAN :
    Called("clamp_pixel_unchecked", "none", "i32", <<x, y>>, 0,
           clamp_pixel_unchecked(width, height, x.int, y.int, checks))

\* the call returns: the library keeps nothing of it; a panic ends the run
Return ==
  /\ op # "idle"
  /\ ~panicked
  /\ op' = "idle"
  /\ rep' = "none"
  /\ ty' = "none"
  /\ coords' = <<>>
  /\ bound' = 0
  /\ conv' = None
  /\ result' = Unit
  /\ fetched' = <<>>
  /\ corner' = <<>>
  /\ unchecked' = <<>>
  /\ UNCHANGED <<width, height, panicked>>

Next ==
  \/ ToImageAxisIndex
  \/ ClampImageAxisIndex
  \/ WithinBounds
  \/ GetPixelAt
  \/ GetPixelClamped
  \/ InBounds
  \/ GetPixel
  \/ ClampPixel
  \/ ClampPixelUnchecked
  \/ Return

Spec == Init /\ [][Next]_vars

\* ------------------------------------------ the coordinate layer alone
\* c.image_coordinate()
ImageCoordinate ==
  /\ op = "idle"
  /\ \E r \in Reprs : \E t \in Types : \E a \in Values(t) : \E b \in Values(t) :
    \E ubx \in UBChoices(t, a) : \E uby \in UBChoices(t, b) :
      LET ic == image_coordinate(r, t, <<a, b>>, ubx, uby)
      IN Called("image_coordinate", r, t, <<a, b>>, 0,
                Outcome(FALSE, ic, OptIndexPair(ic), <<>>))

\* c.image_coordinate_clamped(right, bottom) on coordinate c, which keeps in
\* conv what an earlier image_coordinate() of the same coordinate returned
ClampCoordinate(r, t, c, ic) ==
  \E right \in Extents : \E bottom \in Extents :
    \E ubx \in UBChoices(t, c[1]) : \E uby \in UBChoices(t, c[2]) :
      /\ op' = "image_coordinate_clamped"
      /\ rep' = r
      /\ ty' = t
      /\ coords' = c
      /\ bound' = 0
      /\ conv' = ic
      /\ result' = IndexPair(image_coordinate_clamped(r, t, c, right, bottom, ubx, uby))
      /\ fetched' = <<>>
      /\ panicked' = FALSE
      /\ corner' = <<right, bottom>>
      /\ unchecked' = UncheckedIn("image_coordinate_clamped", t, c, FALSE)
      /\ UNCHANGED <<width, height>>

ImageCoordinateClamped ==
  \/ /\ op = "idle"
     /\ \E r \in Reprs : \E t \in Types : \E a \in Values(t) : \E b \in Values(t) :
          ClampCoordinate(r, t, <<a, b>>, None)
  \/ /\ op = "image_coordinate"
     /\ ClampCoordinate(rep, ty, coords, conv)

\* the coordinate layer needs no raster: one raster stands for all
InitCoord == Init /\ width = 1 /\ height = 1

NextCoord ==
  \/ ImageCoordinate
  \/ ImageCoordinateClamped
  \/ Return

SpecCoord == InitCoord /\ [][NextCoord]_vars

\* =================================================================
\* Properties
\* =================================================================
NonEmpty == width > 0 /\ height > 0
EmptyRaster == width = 0 \/ height = 0

\* v < 0 as a number, for a value of type t
NegativeValue(t, v) == IF t \in FloatTypes THEN FloatNegative(v) ELSE v.int < 0
\* v >= n as a number, for a value of type t and a natural n
AtLeast(t, v, n) ==
  IF t \in FloatTypes
    THEN ~v.neg /\ (v.cls = "inf" \/ (v.cls = "fin" /\ v.mag >= n * FracDen))
    ELSE v.int >= n
\* idx is the value v projected onto [0, hi]; for a float whose conversion
\* is undefined only the range is required
ProjectedOnto(t, v, idx, hi) ==
  IF t \in FloatTypes
    THEN /\ 0 <= idx /\ idx <= hi
         /\ (is_finite(v) /\ ~v.neg /\ Trunc(v) <= U32Max) => idx = Min(Trunc(v), hi)
         /\ v = PosInf => idx = hi
         /\ is_nan(v) => idx = 0
    ELSE idx = Min(Max(v.int, 0), hi)
\* the bounds test on an image_coordinate() result
CoordinateInside(ic) == IsSome(ic) /\ Unwrap(ic)[1] < width /\ Unwrap(ic)[2] < height

\* C1: clamp_image_axis_index(v, max) returns r with 0 <= r <= max, for
\* every numeric type, every value v and every max.
C1_ClampWithinMax ==
  op = "clamp_image_axis_index" => (0 <= result.index /\ result.index <= bound)

\* C2: on a non-empty raster get_pixel_clamped makes exactly one unchecked
\* fetch, at indices x < width and y < height; get_pixel_at fetches only at
\* such indices and makes no fetch when it returns None.
C2_FetchInBounds ==
  /\ (op = "get_pixel_clamped" /\ NonEmpty) =>
       /\ ~panicked
       /\ Len(fetched) = 1
       /\ fetched[1][1] < width
       /\ fetched[1][2] < height
  /\ op = "get_pixel_at" =>
       /\ \A i \in 1..Len(fetched) : fetched[i][1] < width /\ fetched[i][2] < height
       /\ result = OptPixel(None) => fetched = <<>>

\* C3: on a non-empty raster get_pixel_clamped fetches from column
\* width - 1 when the x component is >= width and from row height - 1 when
\* the y component is >= height, each axis against its own extent.
C3_ClampFarEdge ==
  (op = "get_pixel_clamped" /\ NonEmpty) =>
    /\ ~panicked
    /\ Len(fetched) = 1
    /\ AtLeast(ty, coords[1], width) => fetched[1][1] = width - 1
    /\ AtLeast(ty, coords[2], height) => fetched[1][2] = height - 1

C5_InRangeLookup ==
  (/\ op = "get_pixel_at"
   /\ ty \in IntTypes
   /\ 0 <= coords[1].int /\ coords[1].int < width
   /\ 0 <= coords[2].int /\ coords[2].int < height) =>
    /\ result = OptPixel(Some([col |-> coords[1].int, row |-> coords[2].int]))
    /\ fetched = << <<coords[1].int, coords[2].int>> >>

C5_Witness ==
  /\ op = "get_pixel_at"
  /\ ty = "u16"
  /\ width = 2 /\ height = 2
  /\ coords = <<IntVal(1), IntVal(0)>>
  /\ result = OptPixel(Some([col |-> 1, row |-> 0]))

\* C6: within_bounds(c) is true iff c.image_coordinate() is Some((x, y))
\* with x < width and y < height, and get_pixel_at(c) is Some exactly then.
C6_WithinBoundsIff ==
  /\ op = "within_bounds" => result = Bool(CoordinateInside(conv))
  /\ op = "get_pixel_at" => IsSome(result.opt_pixel) = CoordinateInside(conv)

C6_Witness ==
  /\ op = "within_bounds"
  /\ ty = "f64"
  /\ width = 2 /\ height = 2
  /\ coords = <<Fin(FALSE, 1), Fin(FALSE, FracDen)>>
  /\ conv = Some(<<0, 1>>)
  /\ result = Bool(TRUE)

\* C7: on a raster with width = 0 or height = 0, within_bounds and
\* in_bounds return false and get_pixel_at and get_pixel return None, for
\* every coordinate.
C7_EmptyRaster ==
  EmptyRaster =>
    /\ op \in {"within_bounds", "in_bounds"} => result = Bool(FALSE)
    /\ op \in {"get_pixel_at", "get_pixel"} => (result = OptPixel(None) /\ fetched = <<>>)

C7_Witness ==
  /\ width = 0 /\ height = 2
  /\ op = "get_pixel"
  /\ coords = <<IntVal(0), IntVal(0)>>
  /\ result = OptPixel(None)

\* C8: on a raster with width = 0 or height = 0, get_pixel_clamped and
\* clamp_pixel panic for every coordinate, before any unchecked fetch.
C8_EmptyClampPanics ==
  (EmptyRaster /\ op \in {"get_pixel_clamped", "clamp_pixel"}) =>
    (panicked /\ fetched = <<>>)

\* C9: for every raster and every i32 pair (x, y), in_bounds(image, x, y)
\* equals within_bounds((x, y)) and get_pixel(image, x, y) equals
\* get_pixel_at((x, y)).
C9_RawEqualsGeneric ==
  /\ op = "in_bounds" =>
       result = within_bounds("tuple", "i32", coords, width, height, 0, 0).result
  /\ op = "get_pixel" =>
       /\ result = get_pixel_at("tuple", "i32", coords, width, height, 0, 0).result
       /\ fetched = get_pixel_at("tuple", "i32", coords, width, height, 0, 0).fetched

\* C10: on a non-empty raster, for every i32 pair (x, y), clamp_pixel does
\* not panic and fetches at (min(max(x,0), width-1), min(max(y,0), height-1)),
\* the index pair of get_pixel_clamped((x, y)).
C10_ClampPixelEqualsGeneric ==
  (op = "clamp_pixel" /\ NonEmpty) =>
    /\ ~panicked
    /\ fetched = << <<Min(Max(coords[1].int, 0), width - 1),
                      Min(Max(coords[2].int, 0), height - 1)>> >>
    /\ \E checks \in BOOLEAN :
         fetched = get_pixel_clamped("tuple", "i32", coords, width, height, checks, 0, 0).fetched

\* C11: for every integer type and value v, to_image_axis_index(v) is
\* Some(v) when 0 <= v <= u32::MAX and None otherwise, never a wrapped or
\* truncated value.
C11_ExactIntegerConversion ==
  (op = "to_image_axis_index" /\ ty \in IntTypes) =>
    result = OptIndex(IF 0 <= coords[1].int /\ coords[1].int <= U32Max
                        THEN Some(coords[1].int)
                        ELSE None)

C11_Witness ==
  /\ op = "to_image_axis_index"
  /\ ty = "u128"
  /\ coords = <<IntVal(U32Max + 1)>>
  /\ result = OptIndex(None)

\* C12: for every float v, to_image_axis_index(v) is None unless v is
\* finite and non-negative (-0.0 included), and is otherwise Some(trunc(v))
\* with trunc(v) representable in the axis index type.
C12_FloatConversion ==
  (op = "to_image_axis_index" /\ ty \in FloatTypes) =>
    IF is_finite(coords[1]) /\ ~FloatNegative(coords[1])
      THEN /\ Trunc(coords[1]) <= U32Max
           /\ result = OptIndex(Some(Trunc(coords[1])))
      ELSE result = OptIndex(None)

\* C13: the float clamp_image_axis_index returns 0 for NaN, for negative
\* infinity and for every negative finite value, max for positive infinity,
\* and min(trunc(v), max) for every finite non-negative v.
C13_FloatClamp ==
  (op = "clamp_image_axis_index" /\ ty \in FloatTypes) =>
    result = Index(CASE is_nan(coords[1]) -> 0
                     [] FloatNegative(coords[1]) -> 0
                     [] coords[1] = PosInf -> bound
                     [] OTHER -> Min(Trunc(coords[1]), bound))

\* C14: clamping is a projection: if c.image_coordinate() is Some((x, y))
\* with x <= right and y <= bottom, then
\* c.image_coordinate_clamped(right, bottom) is (x, y).
C14_ClampIsProjection ==
  (/\ op = "image_coordinate_clamped"
   /\ IsSome(conv)
   /\ Unwrap(conv)[1] <= corner[1]
   /\ Unwrap(conv)[2] <= corner[2]) =>
    result = IndexPair(Unwrap(conv))

\* C15: image_coordinate() of (a, b) is Some((ia, ib)) exactly when
\* to_image_axis_index(a) is Some(ia) and to_image_axis_index(b) is
\* Some(ib), and None when either is None; component 0 is x, component 1 y.
C15_BothOrNeither ==
  op = "image_coordinate" =>
    /\ IsSome(conv) <=> (/\ IsSome(to_image_axis_index(ty, coords[1], 0))
                         /\ IsSome(to_image_axis_index(ty, coords[2], 0)))
    /\ IsSome(conv) =>
         /\ \E ubx \in UBChoices(ty, coords[1]) :
              to_image_axis_index(ty, coords[1], ubx) = Some(Unwrap(conv)[1])
         /\ \E uby \in UBChoices(ty, coords[2]) :
              to_image_axis_index(ty, coords[2], uby) = Some(Unwrap(conv)[2])

C15_Witness ==
  /\ op = "image_coordinate"
  /\ rep = "tuple"
  /\ ty = "i32"
  /\ coords = <<IntVal(1), IntVal(2)>>
  /\ conv = Some(<<1, 2>>)

\* C16: the tuple (a, b), the array [a, b] and the array reference &[a, b]
\* give the same image_coordinate() and the same
\* image_coordinate_clamped(right, bottom).
C16_RepresentationsAgree ==
  /\ op = "image_coordinate" =>
       \A r2 \in Reprs :
         \E ubx \in UBChoices(ty, coords[1]) : \E uby \in UBChoices(ty, coords[2]) :
           conv = image_coordinate(r2, ty, coords, ubx, uby)
  /\ op = "image_coordinate_clamped" =>
       \A r2 \in Reprs :
         \E ubx \in UBChoices(ty, coords[1]) : \E uby \in UBChoices(ty, coords[2]) :
           result = IndexPair(image_coordinate_clamped(r2, ty, coords, corner[1], corner[2],
                                                       ubx, uby))

C16_Witness ==
  /\ op = "image_coordinate_clamped"
  /\ rep = "array_ref"
  /\ ty = "i32"
  /\ coords = <<IntVal(0 - 1), IntVal(2)>>
  /\ corner = <<1, 1>>
  /\ result = IndexPair(<<0, 1>>)

\* C17: for every signed integer type, value v and max,
\* clamp_image_axis_index(v, max) is min(max(v, 0), max) over the unbounded
\* integers.
C17_SignedClamp ==
  (op = "clamp_image_axis_index" /\ ty \in SignedInbound \cup SignedWide) =>
    result = Index(Min(Max(coords[1].int, 0), bound))

C17_Witness ==
  /\ op = "clamp_image_axis_index"
  /\ ty = "i64"
  /\ coords = <<IntVal(U32Max + 1)>>
  /\ bound = I32Max + 1
  /\ result = Index(I32Max + 1)

\* the position of a float on the number line, in 1/FracDen units
FloatKey(f) ==
  IF f.cls = "inf"
    THEN (IF f.neg THEN 0 - (U32Max + 8) * FracDen ELSE (U32Max + 8) * FracDen)
    ELSE (IF f.neg THEN 0 - f.mag ELSE f.mag)
\* a <= b for two values of type t (NaN is not ordered)
ValueLE(t, a, b) ==
  IF t \in FloatTypes
    THEN ~is_nan(a) /\ ~is_nan(b) /\ FloatKey(a) <= FloatKey(b)
    ELSE a.int <= b.int

\* C18: for a fixed max, clamp_image_axis_index is monotone non-decreasing
\* in its value: v1 <= v2 implies clamp(v1, max) <= clamp(v2, max).
C18_ClampMonotone ==
  op = "clamp_image_axis_index" =>
    \A v2 \in Values(ty) :
      ValueLE(ty, coords[1], v2) =>
        \A ub \in UBChoices(ty, v2) :
          result.index <= clamp_image_axis_index(ty, v2, bound, ub)

\* C19: to_image_axis_index and clamp_image_axis_index evaluate
\* to_int_unchecked only on finite values v with -1 < v < 2^32.
C19_UncheckedPrecondition ==
  op \in {"to_image_axis_index", "clamp_image_axis_index"} =>
    \A i \in 1..Len(unchecked) : ToIntPre(unchecked[i])

====
